---------------------------- MODULE Spec2Model ----------------------------
(***************************************************************************)
(* Model of setup.py of insights_publisher.                                *)
(*                                                                         *)
(* setup.py is one statement: a call of setuptools.setup() with ten        *)
(* keyword arguments, nine of them literals and one, packages, the result  *)
(* of find_packages() on the current directory.  The model runs that       *)
(* statement NumRuns times on one source tree, each run with its own       *)
(* argument vector and environment, and follows the scripts argument       *)
(* through the build_scripts / install_scripts commands that setup()       *)
(* dispatches to.                                                          *)
(*                                                                         *)
(* Paths of the source tree are sequences of components; the strings the   *)
(* program handles ('insights_publisher/publisher', dotted package names)  *)
(* are obtained from them by joining with the separator, as os.path.join   *)
(* and rel_path.replace(os.path.sep, '.') do.                              *)
(***************************************************************************)
EXTENDS Integers, Sequences, FiniteSets, TLC

\* Number of runs of setup.py on the same source tree.
NumRuns == 2

Runs == 1..NumRuns

(***************************************************************************)
(* The source tree setup.py is run in.  Directory names are dot-free       *)
(* identifiers and none is ez_setup or __pycache__, so the name filters of *)
(* find_packages never apply to them.                                      *)
(***************************************************************************)
DirUniverse ==
  { <<"insights_publisher">>,
    <<"insights_publisher", "core">>,
    <<"tests">> }

FileUniverse ==
  { <<"insights_publisher", "__init__.py">>,
    <<"insights_publisher", "publisher">>,
    <<"insights_publisher", "core", "__init__.py">>,
    <<"tests", "__init__.py">> }

Parent(p) == SubSeq(p, 1, Len(p) - 1)

\* A tree is well formed when every entry's parent directory is present.
WellFormed(ds, fs) ==
  /\ \A d \in ds : Len(d) > 1 => Parent(d) \in ds
  /\ \A f \in fs : Parent(f) \in ds

\* The argument vectors and environments setup.py is run with.
Argvs == { <<"setup.py", "build">>, <<"setup.py", "install">> }

Envs == { {}, {"VERSION=9.9.9"} }

RECURSIVE Join(_, _)
\* os.path.join / str.replace(os.path.sep, '.'): the components of p
\* separated by sep.
Join(p, sep) ==
  IF Len(p) = 0 THEN ""
  ELSE IF Len(p) = 1 THEN p[1]
  ELSE p[1] \o sep \o Join(Tail(p), sep)

\* PackageFinder._looks_like_package: the directory holds an __init__.py.
LooksLikePackage(d, fs) == Append(d, "__init__.py") \in fs

RECURSIVE FindIter(_, _, _)
\* PackageFinder._find_iter: walk the tree top-down from root, yield every
\* directory that looks like a package and descend only into those.
FindIter(root, ds, fs) ==
  LET subdirs == { d \in ds : Len(d) = Len(root) + 1 /\ Parent(d) = root }
      pkgs    == { d \in subdirs : LooksLikePackage(d, fs) }
  IN  { Join(d, ".") : d \in pkgs }
        \cup UNION { FindIter(d, ds, fs) : d \in pkgs }

\* find_packages() with its defaults: where='.', no exclude, include '*'.
find_packages(ds, fs) == FindIter(<<>>, ds, fs)

VARIABLES
  dirs,       \* directories of the source tree
  files,      \* regular files of the source tree
  argv,       \* argv[r]: argument vector of run r
  env,        \* env[r]: environment of run r
  pc,         \* pc[r]: position of run r
  packages,   \* packages[r]: value of find_packages() in run r
  kwargs,     \* kwargs[r]: keyword arguments setup() received in run r
  built,      \* built[r]: file names in the build directory of run r
  installed   \* installed[r]: file names installed as executables by run r

vars == <<dirs, files, argv, env, pc, packages, kwargs, built, installed>>

Init ==
  /\ dirs \in SUBSET DirUniverse
  /\ files \in SUBSET FileUniverse
  /\ WellFormed(dirs, files)
  /\ argv \in [Runs -> Argvs]
  /\ env \in [Runs -> Envs]
  /\ pc = [r \in Runs |-> "start"]
  /\ packages = [r \in Runs |-> {}]
  /\ kwargs = [r \in Runs |-> <<>>]
  /\ built = [r \in Runs |-> {}]
  /\ installed = [r \in Runs |-> {}]

\* Line 11: the argument expression find_packages() is evaluated.
FindPackages(r) ==
  /\ pc[r] = "start"
  /\ packages' = [packages EXCEPT ![r] = find_packages(dirs, files)]
  /\ pc' = [pc EXCEPT ![r] = "args"]
  /\ UNCHANGED <<dirs, files, argv, env, kwargs, built, installed>>

\* Variants of the keyword arguments, each differing from lines 3-14 in one
\* place.
SetupKwargs_WrongScript(pkgs) ==
  [ name         |-> "insights_publisher",
    description  |-> "A package to streamline publication workflows for Knowledge Repo and tie published work to GitHub commits.",
    url          |-> "https://github.com/CPapadim/insights_publisher",
    version      |-> "0.1.0",
    author       |-> "Charalampos Papadimitriou",
    author_email |-> "papadimitriou.c@gmail.com",
    license      |-> "MIT",
    packages     |-> pkgs,
    zip_safe     |-> FALSE,
    scripts      |-> <<"insights_publisher/publisher", "insights_publisher/__init__.py">> ]

SetupKwargs_WrongVersion(pkgs) ==
  [ name         |-> "insights_publisher",
    description  |-> "A package to streamline publication workflows for Knowledge Repo and tie published work to GitHub commits.",
    url          |-> "https://github.com/CPapadim/insights_publisher",
    version      |-> "0.1",
    author       |-> "Charalampos Papadimitriou",
    author_email |-> "papadimitriou.c@gmail.com",
    license      |-> "MIT",
    packages     |-> pkgs,
    zip_safe     |-> FALSE,
    scripts      |-> <<"insights_publisher/publisher">> ]

SetupKwargs_Requires(pkgs) ==
  [ name             |-> "insights_publisher",
    description      |-> "A package to streamline publication workflows for Knowledge Repo and tie published work to GitHub commits.",
    url              |-> "https://github.com/CPapadim/insights_publisher",
    version          |-> "0.1.0",
    author           |-> "Charalampos Papadimitriou",
    author_email     |-> "papadimitriou.c@gmail.com",
    license          |-> "MIT",
    install_requires |-> pkgs,
    zip_safe         |-> FALSE,
    scripts          |-> <<"insights_publisher/publisher">> ]

SetupKwargs_NoZipSafe(pkgs) ==
  [ name         |-> "insights_publisher",
    description  |-> "A package to streamline publication workflows for Knowledge Repo and tie published work to GitHub commits.",
    url          |-> "https://github.com/CPapadim/insights_publisher",
    version      |-> "0.1.0",
    author       |-> "Charalampos Papadimitriou",
    author_email |-> "papadimitriou.c@gmail.com",
    license      |-> "MIT",
    packages     |-> pkgs,
    scripts      |-> <<"insights_publisher/publisher">> ]

\* Lines 3-14: the keyword arguments of the setup() call.
SetupKwargs(pkgs) ==
  [ name         |-> "insights_publisher",
    description  |-> "A package to streamline publication workflows for Knowledge Repo and tie published work to GitHub commits.",
    url          |-> "https://github.com/CPapadim/insights_publisher",
    version      |-> "0.1.0",
    author       |-> "Charalampos Papadimitriou",
    author_email |-> "papadimitriou.c@gmail.com",
    license      |-> "MIT",
    packages     |-> pkgs,
    zip_safe     |-> FALSE,
    scripts      |-> <<"insights_publisher/publisher">> ]

\* Variant of the call in which the version is taken from the environment.
Setup_EnvVersion(r) ==
  /\ pc[r] = "args"
  /\ kwargs' = [kwargs EXCEPT ![r] =
        [SetupKwargs(packages[r]) EXCEPT
           !.version = IF "VERSION=9.9.9" \in env[r] THEN "9.9.9" ELSE @]]
  /\ pc' = [pc EXCEPT ![r] = "setup"]
  /\ UNCHANGED <<dirs, files, argv, env, packages, built, installed>>

\* Lines 3-14: setup() is called, unconditionally, with those arguments.
Setup(r) ==
  /\ pc[r] = "args"
  /\ kwargs' = [kwargs EXCEPT ![r] = SetupKwargs(packages[r])]
  /\ pc' = [pc EXCEPT ![r] = "setup"]
  /\ UNCHANGED <<dirs, files, argv, env, packages, built, installed>>

\* The files of the tree a script path names (convert_path, then open).
ScriptFiles(script, fs) == { f \in fs : Join(f, "/") = script }

\* Variant of build_scripts that refuses a script whose directory was not
\* discovered as a package.
BuildScripts_CrossChecked(r) ==
  /\ pc[r] = "setup"
  /\ LET scripts == kwargs[r].scripts
         found   == { f \in UNION { ScriptFiles(scripts[i], files)
                                      : i \in 1..Len(scripts) }
                        : Join(Parent(f), ".") \in kwargs[r].packages }
     IN  IF Cardinality(found) = Len(scripts)
         THEN /\ built' = [built EXCEPT ![r] = { f[Len(f)] : f \in found }]
              /\ pc' = [pc EXCEPT ![r] = "built"]
         ELSE /\ built' = built
              /\ pc' = [pc EXCEPT ![r] = "error"]
  /\ UNCHANGED <<dirs, files, argv, env, packages, kwargs, installed>>

\* Line 13, scripts=[...], as build_scripts consumes it: each listed script
\* is copied under its base name into the build directory; a script that
\* names no file ends the run with an error.
BuildScripts(r) ==
  /\ pc[r] = "setup"
  /\ LET scripts == kwargs[r].scripts
         missing == { i \in 1..Len(scripts) : ScriptFiles(scripts[i], files) = {} }
     IN  IF missing = {}
         THEN /\ built' = [built EXCEPT ![r] =
                   { f[Len(f)] : f \in UNION { ScriptFiles(scripts[i], files)
                                                 : i \in 1..Len(scripts) } }]
              /\ pc' = [pc EXCEPT ![r] = "built"]
         ELSE /\ built' = built
              /\ pc' = [pc EXCEPT ![r] = "error"]
  /\ UNCHANGED <<dirs, files, argv, env, packages, kwargs, installed>>

\* Line 13 under the install command: install_scripts copies the build
\* directory's scripts to the installation's executables.
InstallScripts(r) ==
  /\ pc[r] = "built"
  /\ argv[r][2] = "install"
  /\ installed' = [installed EXCEPT ![r] = built[r]]
  /\ pc' = [pc EXCEPT ![r] = "installed"]
  /\ UNCHANGED <<dirs, files, argv, env, packages, kwargs, built>>

Next ==
  \E r \in Runs :
    \/ FindPackages(r)
    \/ Setup(r)
    \/ BuildScripts(r)
    \/ InstallScripts(r)

Spec == Init /\ [][Next]_vars

\* Run r has called setup().
Called(r) == pc[r] \in {"setup", "built", "installed", "error"}

ScriptPath == "insights_publisher/publisher"

PublisherFile == <<"insights_publisher", "publisher">>

\* Directory d and all its ancestors hold an __init__.py.
IsPackageDir(d) ==
  /\ d \in dirs
  /\ \A i \in 1..Len(d) : Append(SubSeq(d, 1, i), "__init__.py") \in files

-----------------------------------------------------------------------------

\* C1: in every run, setup() receives a scripts list of exactly one element,
\* the path 'insights_publisher/publisher', and a run that installs installs
\* exactly that script as an executable.
C1_OneEntryScript ==
  \A r \in Runs :
    /\ Called(r) =>
         /\ Len(kwargs[r].scripts) = 1
         /\ kwargs[r].scripts[1] = ScriptPath
    /\ pc[r] = "installed" => installed[r] = {"publisher"}

C1_Witness ==
  \E r \in Runs : pc[r] = "installed" /\ installed[r] = {"publisher"}

\* C2: in every run, whatever the tree, the argument vector and the
\* environment, setup() receives name 'insights_publisher', version '0.1.0'
\* and license 'MIT'.
C2_FixedIdentity ==
  \A r \in Runs :
    Called(r) =>
      /\ kwargs[r].name = "insights_publisher"
      /\ kwargs[r].version = "0.1.0"
      /\ kwargs[r].license = "MIT"

C2_Witness ==
  \E r \in Runs :
    /\ Called(r)
    /\ env[r] # {}
    /\ argv[r][2] = "install"
    /\ kwargs[r].packages # {}

\* C4: two runs on the same directory contents pass identical keyword
\* arguments to setup(), however their environments and argument vectors
\* differ.
C4_KwargsIndependentOfEnvArgv ==
  \A r1, r2 \in Runs :
    Called(r1) /\ Called(r2) => kwargs[r1] = kwargs[r2]

C4_Witness ==
  \E r1, r2 \in Runs :
    /\ Called(r1) /\ Called(r2)
    /\ env[r1] # env[r2]
    /\ argv[r1] # argv[r2]

\* C5 as stated: the result of find_packages() is what setup() is given as
\* the distribution's dependencies.
C5_Original ==
  \A r \in Runs :
    Called(r) =>
      /\ "install_requires" \in DOMAIN kwargs[r]
      /\ kwargs[r].install_requires = packages[r]

\* C5 amended: the result of find_packages() is what setup() is given as the
\* distribution's packages, namely the directories that hold an __init__.py
\* along with all their ancestors, and setup() is given no dependency list.
C5_PackagesNotDependencies ==
  \A r \in Runs :
    Called(r) =>
      /\ "packages" \in DOMAIN kwargs[r]
      /\ kwargs[r].packages = { Join(d, ".") : d \in { e \in DirUniverse : IsPackageDir(e) } }
      /\ "install_requires" \notin DOMAIN kwargs[r]

C5_Witness ==
  \E r \in Runs :
    /\ Called(r)
    /\ "insights_publisher.core" \in kwargs[r].packages
    /\ "install_requires" \notin DOMAIN kwargs[r]

\* C6 as stated: setup() receives no keyword argument other than name,
\* description, url, version, author, license and scripts.
C6_Original ==
  \A r \in Runs :
    Called(r) =>
      DOMAIN kwargs[r] \subseteq
        {"name", "description", "url", "version", "author", "license", "scripts"}

\* C6 amended: setup() receives exactly the keyword arguments name,
\* description, url, version, author, author_email, license, packages,
\* zip_safe and scripts.
C6_ExactKeywords ==
  \A r \in Runs :
    Called(r) =>
      DOMAIN kwargs[r] =
        {"name", "description", "url", "version", "author", "author_email",
         "license", "packages", "zip_safe", "scripts"}

C6_Witness ==
  \E r \in Runs :
    /\ Called(r)
    /\ {"author_email", "packages", "zip_safe"} \subseteq DOMAIN kwargs[r]
    /\ kwargs[r].zip_safe = FALSE

\* C7: the packages passed follow the tree, the scripts list does not, and
\* whether the script is built and installed is decided by the presence of
\* its file (hence of its directory) alone, not by whether
\* insights_publisher was discovered as a package.
C7_ScriptIndependentOfPackages ==
  \A r \in Runs :
    /\ Called(r) =>
         /\ ("insights_publisher" \in kwargs[r].packages
               <=> <<"insights_publisher", "__init__.py">> \in files)
         /\ kwargs[r].scripts = <<ScriptPath>>
    /\ pc[r] \in {"built", "installed"} =>
         /\ PublisherFile \in files
         /\ <<"insights_publisher">> \in dirs
         /\ built[r] = {"publisher"}
    /\ pc[r] = "error" => PublisherFile \notin files

C7_Witness ==
  \E r \in Runs :
    /\ pc[r] = "installed"
    /\ installed[r] = {"publisher"}
    /\ "insights_publisher" \notin kwargs[r].packages
    /\ kwargs[r].packages # {}

=============================================================================
